---- MODULE Spec2Model ----
(***************************************************************************)
(* Model of the RAG web assistant: the HTTP boundary of main.py            *)
(* (Payload validation, get_response) and the pipeline of rag.py           *)
(* (Rag.response, web_parsing, get_or_create_uuid, create_embeddings).     *)
(*                                                                         *)
(* A worker is one server process.  get_response is an `async def` that    *)
(* calls the blocking rag_object.response directly, so one process handles *)
(* one request at a time; several processes share the data directory       *)
(* (url_mapping.json and one index directory per id) without any lock, so  *)
(* their file operations interleave.  Each process owns one Rag object     *)
(* whose docs and vector_store fields survive from request to request.     *)
(*                                                                         *)
(* Storage assumption: a write that has begun completes (json.dump and     *)
(* save_local are not cut short by a crash); a reader of another process   *)
(* can still see the mapping file between open(..., "w") and the dump.     *)
(***************************************************************************)
EXTENDS Integers, Sequences, FiniteSets, TLC

\* ---------------------------------------------------------------- bounds
\* Requests that get as far as the identity store.
MaxRequests == 2

\* ------------------------------------------------------ program constants
MaxMessages == 20
MinContentLen == 100
PlaceholderLen == 41

\* Two server processes on one data directory: the smallest deployment in
\* which the file operations of two requests interleave.
Workers == {"p1", "p2"}

\* ----------------------------------------------------------------- inputs
HttpUrl == <<"h", "t", "t", "p", ":", "/", "/", "a">>
HttpsUrl == <<"h", "t", "t", "p", "s", ":", "/", "/", "b">>
FtpUrl == <<"f", "t", "p", ":", "/", "/", "c">>
EmptyUrl == <<>>

HttpPrefix == <<"h", "t", "t", "p", ":", "/", "/">>
HttpsPrefix == <<"h", "t", "t", "p", "s", ":", "/", "/">>

\* A conversation of n messages; the last one is the current turn.
Conversation(n) ==
    [i \in 1..n |-> [role |-> IF i % 2 = n % 2 THEN "user" ELSE "assistant",
                     content |-> IF i = n THEN "question" ELSE "earlier"]]

Payload(n, url) ==
    [wellformed |-> TRUE, messages |-> Conversation(n), url |-> url]

\* A payload that is not the dictionary response expects.
Malformed == [wellformed |-> FALSE, messages |-> <<>>, url |-> EmptyUrl]

\* The request bodies posted to /response/.
HttpPayloads ==
    {Payload(1, HttpUrl), Payload(2, HttpUrl), Payload(MaxMessages, HttpsUrl),
     Payload(0, HttpUrl), Payload(MaxMessages + 1, HttpUrl),
     Payload(1, FtpUrl), Payload(1, EmptyUrl)}

\* The payloads handed to Rag.response by a caller other than get_response.
DirectPayloads ==
    {Malformed, Payload(0, HttpUrl), Payload(1, EmptyUrl)}

\* Lengths of the text a successful fetch extracts.
TextLens == {MinContentLen - 1, MinContentLen}

FetchOutcomes ==
    [kind : {"ok"}, len : TextLens]
        \cup [kind : {"transport_error", "other_error"}, len : {0}]

\* ---------------------------------------------------------- answer texts
NoUrlAnswer == "Error: No URL was provided for context."
NoMessagesAnswer == "Error: No messages were provided in the request."
InsufficientAnswer == "I couldn't extract enough information from the provided URL."
ConfigErrorAnswer == "Error: GROQ API key is not configured."
ErrorAnswer == "I encountered an error while processing your request"
LlmAnswer == "llm answer"
RewrittenQuery == "llm search query"

None == "None"

VARIABLES
    url_file,       \* data/url_mapping.json: [state, dict], dict a set of <<id, url>>
    dirs,           \* data/<id>: function from the ids that have a directory
    groq_api_key,   \* whether the LLM credential is in the environment
    rag,            \* per process: the Rag object's vector_store
    req,            \* per process: the request being handled and its outcome
    nextId,         \* uuid4: the next fresh identifier
    served,         \* number of requests that reached the identity store
    buildCount,     \* history: per id, index builds that save_local completed
    everWritten,    \* history: every <<id, url>> written to the mapping file
    lastWriter,     \* history: the process whose json.dump came last
    overlapped,     \* history: two requests were in flight at once
    sameUrlOverlap  \* history: two requests for one url were in flight at once

vars ==
    <<url_file, dirs, groq_api_key, rag, req, nextId, served, buildCount,
      everWritten, lastWriter, overlapped, sameUrlOverlap>>

\* ------------------------------------------------------- pure functions
StartsWith(s, p) ==
    Len(s) >= Len(p) /\ SubSeq(s, 1, Len(p)) = p

\* Payload.url_must_be_valid: TRUE when the validator accepts v.
url_must_be_valid(v) ==
    StartsWith(v, HttpPrefix) \/ StartsWith(v, HttpsPrefix)

\* Variant of messages_not_empty without the limit on the history.
messages_not_empty_relaxed(v) ==
    Len(v) # 0

\* Payload.messages_not_empty: TRUE when the validator accepts v.
messages_not_empty(v) ==
    Len(v) # 0 /\ ~(Len(v) > MaxMessages)

\* Variant of IsTransportError: an except clause that matches nothing.
AbsorbsNothing(kind) ==
    FALSE

\* The except clause of web_parsing: requests.RequestException and
\* httpx.HTTPError (timeouts, connection errors, raise_for_status).
IsTransportError(kind) ==
    kind = "transport_error"

\* web_parsing: the documents it leaves in self.docs, or the exception raised.
web_parsing(url, outcome) ==
    IF outcome.kind = "ok"
    THEN [raised |-> FALSE,
          docs |-> <<[len |-> outcome.len, source |-> url, error |-> FALSE]>>]
    ELSE IF IsTransportError(outcome.kind)
    THEN [raised |-> FALSE,
          docs |-> <<[len |-> PlaceholderLen, source |-> url, error |-> TRUE]>>]
    ELSE [raised |-> TRUE, docs |-> <<>>]

\* response: `not documents or len(documents[0].page_content) < 100`.
InsufficientContent(documents) ==
    documents = <<>> \/ documents[1].len < MinContentLen

\* get_or_create_uuid: json.load of the mapping file; a missing file and a
\* file that does not parse both give the empty mapping.
LoadMapping(file) ==
    IF file.state = "ok" THEN file.dict ELSE {}

MaxOf(S) ==
    CHOOSE x \in S : \A y \in S : y <= x

\* get_or_create_uuid: {v: k for k, v in url_dict.items()}; of two ids of one
\* url the one inserted later (the larger) stays.
url_dict_reversed(url_dict) ==
    [u \in {p[2] : p \in url_dict} |->
        MaxOf({p[1] : p \in {q \in url_dict : q[2] = u}})]

\* Variant of IsKnown: the lookup never finds the url.
NeverKnown(url_dict, url) ==
    FALSE

\* get_or_create_uuid: `url in url_dict_reversed`.
IsKnown(url_dict, url) ==
    url \in DOMAIN url_dict_reversed(url_dict)

\* Variant of AddEntry: the mapping is started afresh with the new entry.
OnlyNewEntry(url_dict, uuid, url) ==
    {<<uuid, url>>}

\* get_or_create_uuid: url_dict[uuid] = url.
AddEntry(url_dict, uuid, url) ==
    {p \in url_dict : p[1] # uuid} \cup {<<uuid, url>>}

\* Variant of json_dump: the dump is merged into what the file holds.
json_dump_merge(current, url_dict) ==
    current \cup url_dict

\* get_or_create_uuid: open(url_file, "w") then json.dump(url_dict, f): the
\* file holds what this call dumps, whatever it held before.
json_dump(current, url_dict) ==
    url_dict

\* Variant of vector_store_path_exists: the directory is never found.
AlwaysAbsent(d, uuid) ==
    FALSE

\* response: vector_store_path.exists().
vector_store_path_exists(d, uuid) ==
    uuid \in DOMAIN d

\* Variant of CredentialMissing: the guard never fires.
NeverMissing(key) ==
    FALSE

\* response: `if not self.groq_api_key`.
CredentialMissing(key) ==
    ~key

\* Variant of IsSingleMessage: the branch is off by one.
AtMostTwoMessages(message) ==
    Len(message) <= 2

\* RunnableBranch condition: len(x.get("message", [])) == 1.
IsSingleMessage(message) ==
    Len(message) = 1

\* Variant of AssignStore: the field keeps the first index it was given.
KeepFirstStore(held, store) ==
    IF held.id = 0 THEN store ELSE held

\* response, create_embeddings: self.vector_store = <the index of this
\* request>; whatever the field held is overwritten.
AssignStore(held, store) ==
    store

\* Variant of Caught: the exception leaves response.
Propagated ==
    [kind |-> "raised", answer |-> None]

\* response: the except clause turns any exception into an answer.
Caught ==
    [kind |-> "answer", answer |-> ErrorAnswer]

Answer(text) ==
    [kind |-> "answer", answer |-> text]

NoResult == [kind |-> "none", answer |-> None]

NoResponse == [status |-> 0, body |-> "none", answer |-> None]

\* validation_exception_handler: 422 with {"detail": ...}.
validation_exception_handler ==
    [status |-> 422, body |-> "detail", answer |-> None]

\* get_response: what the boundary renders for the pipeline's result.
get_response(result) ==
    IF result.kind = "raised"
    THEN [status |-> 500, body |-> "detail", answer |-> None]
    ELSE IF result.kind # "answer"
    THEN [status |-> 500, body |-> "detail", answer |-> None]
    ELSE [status |-> 200, body |-> "answer", answer |-> result.answer]

Put(f, k, v) ==
    [x \in DOMAIN f \cup {k} |-> IF x = k THEN v ELSE f[x]]


\* ------------------------------------------------------------ the state
InFlight(r) ==
    r.pc \notin {"idle", "done"}

\* A url is cached when the mapping file names an id for it whose index
\* directory has been saved.
Cached(url) ==
    \E p \in LoadMapping(url_file) :
        p[2] = url /\ p[1] \in DOMAIN dirs /\ dirs[p[1]].complete

\* self.vector_store = None
NoStore == [id |-> 0, source |-> EmptyUrl]

\* A request: the locals of get_response and Rag.response (via .. created),
\* what they return (result, response), and the history of the request;
\* held is what self.vector_store held when the request resolved its id.
NewReq(via, payload) ==
    [pc |-> "idle", via |-> via, wellformed |-> payload.wellformed,
     url |-> payload.url, messages |-> payload.messages,
     documents |-> <<>>, url_dict |-> {}, uuid |-> 0, created |-> FALSE,
     clobbered |-> FALSE, held |-> NoStore,
     result |-> NoResult, response |-> NoResponse,
     invoked |-> FALSE, cachedAtStart |-> FALSE, fetches |-> 0,
     fetched |-> "none", knewBefore |-> FALSE, index |-> "none",
     planned |-> FALSE, searched |-> NoStore, query |-> None,
     rewriteCalls |-> 0, answerCalls |-> 0, failed |-> "none"]

Idle == NewReq("none", Malformed)

Init ==
    /\ url_file = [state |-> "missing", dict |-> {}]
    /\ dirs = <<>>
    /\ groq_api_key \in BOOLEAN
    /\ rag = [w \in Workers |-> [vector_store |-> NoStore]]
    /\ req = [w \in Workers |-> Idle]
    /\ nextId = 1
    /\ served = 0
    /\ buildCount = <<>>
    /\ everWritten = {}
    /\ lastWriter = None
    /\ overlapped = FALSE
    /\ sameUrlOverlap = FALSE

\* --------------------------------------------- Rag.response, step by step
\* The request record once Rag.response has returned `result`; an http
\* request is then rendered by get_response.
Returned(r, result) ==
    [r EXCEPT !.pc = "done", !.result = result,
              !.response = IF r.via = "http" THEN get_response(result)
                           ELSE NoResponse]

\* response, up to the fetch: the payload is unpacked, and the empty url and
\* the empty conversation are answered at once.
Entered(r) ==
    IF ~r.wellformed
    THEN Returned([r EXCEPT !.invoked = TRUE, !.failed = "payload"], Caught)
    ELSE LET q == [r EXCEPT !.invoked = TRUE, !.cachedAtStart = Cached(r.url)]
         IN  IF r.url = EmptyUrl THEN Returned(q, Answer(NoUrlAnswer))
             ELSE IF r.messages = <<>> THEN Returned(q, Answer(NoMessagesAnswer))
             ELSE [q EXCEPT !.pc = "fetch"]

\* response: documents = self.web_parsing(url), then the length guard.
Fetched(r, outcome) ==
    LET q == [r EXCEPT !.fetches = @ + 1, !.fetched = outcome.kind]
        got == web_parsing(r.url, outcome)
    IN  IF got.raised
        THEN Returned([q EXCEPT !.failed = "fetch"], Caught)
        ELSE IF InsufficientContent(got.docs)
        THEN Returned(q, Answer(InsufficientAnswer))
        ELSE [q EXCEPT !.documents = got.docs, !.pc = "uuid_read"]

\* Rag.response from its first line to the call of get_or_create_uuid.
Begun(r, outcome) ==
    IF Entered(r).pc = "fetch" THEN Fetched(Entered(r), outcome) ELSE Entered(r)

GenerateOutcomes == {"ok", "rewrite_failed", "search_failed", "answer_failed"}

\* response, from the retriever to the end: the credential guard, the
\* RunnableBranch that plans the query, the search of `store` (the retriever
\* of self.vector_store) and the answer.
Generated(r, store, outcome) ==
    LET single == IsSingleMessage(r.messages)
        planned == IF single
                   THEN [r EXCEPT !.planned = TRUE,
                                  !.query = r.messages[Len(r.messages)].content]
                   ELSE [r EXCEPT !.planned = TRUE, !.rewriteCalls = @ + 1,
                                  !.query = IF outcome = "rewrite_failed"
                                            THEN None ELSE RewrittenQuery]
        searched == [planned EXCEPT !.searched = store]
        answered == [searched EXCEPT !.answerCalls = @ + 1]
    IN  IF CredentialMissing(groq_api_key)
        THEN Returned(r, Answer(ConfigErrorAnswer))
        ELSE IF outcome = "rewrite_failed" /\ ~single
        THEN Returned([planned EXCEPT !.failed = "rewrite"], Caught)
        ELSE IF outcome = "search_failed"
        THEN Returned([searched EXCEPT !.failed = "search"], Caught)
        ELSE IF outcome = "answer_failed"
        THEN Returned([answered EXCEPT !.failed = "answer"], Caught)
        ELSE Returned(answered, Answer(LlmAnswer))

\* ---------------------------------------------------------------- actions
\* A request that has returned is replied to before anything else happens:
\* the reply touches nothing but the worker's own record.
Quiet ==
    \A v \in Workers : req[v].pc # "done"

Free(w) ==
    /\ Quiet
    /\ req[w].pc = "idle"
    /\ served < MaxRequests

\* Worker w takes up request r: the histories of overlap, and the count of
\* the requests that go on to the identity store.
Start(w, r) ==
    /\ req' = [req EXCEPT ![w] = r]
    /\ served' = IF InFlight(r) THEN served + 1 ELSE served
    /\ overlapped' =
           (overlapped \/ (InFlight(r) /\ \E v \in Workers \ {w} : InFlight(req[v])))
    /\ sameUrlOverlap' =
           (sameUrlOverlap \/
               (InFlight(r) /\ \E v \in Workers \ {w} :
                                   InFlight(req[v]) /\ req[v].url = r.url))

\* POST /response/: Payload validation, then get_response calls Rag.response,
\* which fetches the page; none of this touches the shared storage.
HttpRequest(w, payload, outcome) ==
    /\ Free(w)
    /\ LET r == NewReq("http", payload)
       IN  IF url_must_be_valid(payload.url) /\ messages_not_empty(payload.messages)
           THEN Start(w, Begun(r, outcome))
           ELSE Start(w, [r EXCEPT !.pc = "done",
                                   !.response = validation_exception_handler])
    /\ UNCHANGED <<url_file, dirs, groq_api_key, rag, nextId, buildCount,
                   everWritten, lastWriter>>

\* Rag.response called as a library method, with any payload.
DirectCall(w, payload, outcome) ==
    /\ Free(w)
    /\ Start(w, Begun(NewReq("direct", payload), outcome))
    /\ UNCHANGED <<url_file, dirs, groq_api_key, rag, nextId, buildCount,
                   everWritten, lastWriter>>

\* get_or_create_uuid up to open(self.url_file, "w"): the mapping file is
\* read and the url looked up; a known url returns its id, a new one gets a
\* fresh uuid4 and the file is opened for writing, which empties it.
ReadMapping(w, ok) ==
    /\ Quiet
    /\ req[w].pc = "uuid_read"
    /\ LET r == [req[w] EXCEPT
                    !.knewBefore = (\E p \in everWritten : p[2] = req[w].url),
                    !.held = rag[w].vector_store]
           url_dict == LoadMapping(url_file)
       IN  IF ~ok
           THEN /\ req' = [req EXCEPT ![w] =
                              Returned([r EXCEPT !.failed = "uuid"], Caught)]
                /\ UNCHANGED <<nextId, url_file>>
           ELSE IF IsKnown(url_dict, r.url)
           THEN /\ req' = [req EXCEPT ![w] =
                              [r EXCEPT !.url_dict = url_dict,
                                        !.uuid = url_dict_reversed(url_dict)[r.url],
                                        !.pc = "index_check"]]
                /\ UNCHANGED <<nextId, url_file>>
           ELSE /\ req' = [req EXCEPT ![w] =
                              [r EXCEPT !.url_dict = AddEntry(url_dict, nextId, r.url),
                                        !.uuid = nextId, !.created = TRUE,
                                        !.clobbered = FALSE,
                                        !.pc = "uuid_dump"]]
                /\ nextId' = nextId + 1
                /\ url_file' = [state |-> "partial", dict |-> {}]
    /\ UNCHANGED <<dirs, groq_api_key, rag, served, buildCount, everWritten,
                   lastWriter, overlapped, sameUrlOverlap>>

\* get_or_create_uuid: json.dump and close.  When another process dumped
\* since this one opened the file, the two writes overlay each other and the
\* file either holds this dump or does not parse (intact = FALSE).
DumpMapping(w, intact) ==
    /\ Quiet
    /\ req[w].pc = "uuid_dump"
    /\ intact \/ req[w].clobbered
    /\ LET r == req[w]
           written == json_dump(url_file.dict, r.url_dict)
       IN  /\ url_file' = IF intact THEN [state |-> "ok", dict |-> written]
                          ELSE [state |-> "partial", dict |-> {}]
           /\ everWritten' = IF intact THEN everWritten \cup written
                             ELSE everWritten
           /\ lastWriter' = w
           /\ req' = [v \in Workers |->
                  IF v = w THEN [r EXCEPT !.pc = "index_check"]
                  ELSE IF req[v].pc = "uuid_dump"
                  THEN [req[v] EXCEPT !.clobbered = TRUE]
                  ELSE req[v]]
    /\ UNCHANGED <<dirs, groq_api_key, rag, nextId, served, buildCount,
                   overlapped, sameUrlOverlap>>

\* response: vector_store_path.exists() chooses between FAISS.load_local of
\* the directory of this id and create_embeddings.  A directory whose save
\* did not complete cannot be loaded.  After a load the rest of response
\* touches no shared storage and is taken in the same step.
LoadOrBuild(w, ok, outcome) ==
    /\ Quiet
    /\ req[w].pc = "index_check"
    /\ LET r == req[w]
           store == AssignStore(rag[w].vector_store,
                                [id |-> r.uuid, source |-> dirs[r.uuid].source])
       IN  IF ~vector_store_path_exists(dirs, r.uuid)
           THEN /\ rag' = rag
                /\ req' = [req EXCEPT ![w].pc = "build"]
           ELSE IF ok /\ dirs[r.uuid].complete
           THEN /\ rag' = [rag EXCEPT ![w].vector_store = store]
                /\ req' = [req EXCEPT ![w] =
                              Generated([r EXCEPT !.index = "loaded"], store, outcome)]
           ELSE /\ rag' = rag
                /\ req' = [req EXCEPT ![w] =
                              Returned([r EXCEPT !.failed = "load"], Caught)]
    /\ UNCHANGED <<url_file, dirs, groq_api_key, nextId, served, buildCount,
                   everWritten, lastWriter, overlapped, sameUrlOverlap>>

BuildOutcomes == {"ok", "add_failed", "save_failed"}

\* create_embeddings: split, embed into a new self.vector_store, save_local
\* under data/<uuid>; any exception is re-raised into response.  After the
\* save the rest of response is taken in the same step.
Build(w, built, outcome) ==
    /\ Quiet
    /\ req[w].pc = "build"
    /\ LET r == req[w]
           new == [id |-> r.uuid, source |-> r.documents[1].source]
           store == AssignStore(rag[w].vector_store, new)
       IN  /\ rag' = [rag EXCEPT ![w].vector_store = store]
           /\ dirs' = IF built = "ok"
                      THEN Put(dirs, r.uuid, [complete |-> TRUE, source |-> new.source])
                      ELSE IF built = "save_failed"
                      THEN Put(dirs, r.uuid, [complete |-> FALSE, source |-> new.source])
                      ELSE dirs
           /\ buildCount' = IF built = "ok"
                            THEN Put(buildCount, r.uuid,
                                     IF r.uuid \in DOMAIN buildCount
                                     THEN buildCount[r.uuid] + 1 ELSE 1)
                            ELSE buildCount
           /\ req' = [req EXCEPT ![w] =
                  IF built = "ok"
                  THEN Generated([r EXCEPT !.index = "built"], store, outcome)
                  ELSE Returned([r EXCEPT !.failed = "build"], Caught)]
    /\ UNCHANGED <<url_file, groq_api_key, nextId, served, everWritten,
                   lastWriter, overlapped, sameUrlOverlap>>

\* get_response returns (or the exception handler answers): the worker is
\* free for its next request.
Reply(w) ==
    /\ req[w].pc = "done"
    /\ req' = [req EXCEPT ![w] = Idle]
    /\ UNCHANGED <<url_file, dirs, groq_api_key, rag, nextId, served,
                   buildCount, everWritten, lastWriter, overlapped,
                   sameUrlOverlap>>

Next ==
    \E w \in Workers :
        \/ \E p \in HttpPayloads, o \in FetchOutcomes : HttpRequest(w, p, o)
        \/ \E p \in DirectPayloads, o \in FetchOutcomes : DirectCall(w, p, o)
        \/ \E ok \in BOOLEAN : ReadMapping(w, ok)
        \/ \E intact \in BOOLEAN : DumpMapping(w, intact)
        \/ \E ok \in BOOLEAN, o \in GenerateOutcomes : LoadOrBuild(w, ok, o)
        \/ \E b \in BuildOutcomes, o \in GenerateOutcomes : Build(w, b, o)
        \/ Reply(w)

Spec == Init /\ [][Next]_vars


\* ----------------------------------------------------------------- claims
Done(w) ==
    req[w].pc = "done"

\* The ids the mapping file has ever held for url u.
IdsEverWritten(u) ==
    {p[1] : p \in {q \in everWritten : q[2] = u}}

\* A url with one of the two schemes the boundary accepts.
HasHttpScheme(u) ==
    \E k \in 1..Len(u) : SubSeq(u, 1, k) \in {HttpPrefix, HttpsPrefix}

NoWriteInProgress ==
    \A w \in Workers : req[w].pc # "uuid_dump"

\* C1: a request for a url whose index directory was already persisted when
\* the request came in performs no network fetch (web_parsing is not called).
C1_CacheHitNoFetch ==
    \A w \in Workers :
        (Done(w) /\ req[w].cachedAtStart) => req[w].fetches = 0

C3_BuildAtMostOnce ==
    \A id \in DOMAIN buildCount : buildCount[id] <= 1

\* C3 amended: as long as no two requests for the same url are in flight at
\* once, the index of an id is built and persisted at most once, and a
\* request that loads an index loads the one persisted copy of its id.
C3_BuildAtMostOnceUnlessRaced ==
    ~sameUrlOverlap =>
        /\ \A id \in DOMAIN buildCount : buildCount[id] <= 1
        /\ \A w \in Workers :
               req[w].index = "loaded" =>
                   /\ req[w].uuid \in DOMAIN buildCount
                   /\ buildCount[req[w].uuid] = 1

C3_Witness ==
    \E w \in Workers :
        /\ ~sameUrlOverlap
        /\ Done(w)
        /\ req[w].index = "loaded"
        /\ buildCount[req[w].uuid] = 1

\* C4: whatever the payload and whichever step raises, Rag.response returns
\* a result that carries an answer text; no exception reaches its caller.
C4_NeverThrows ==
    \A w \in Workers :
        (Done(w) /\ req[w].invoked) =>
            /\ req[w].result.kind = "answer"
            /\ req[w].result.answer # None

C4_Witness ==
    \E w \in Workers :
        /\ Done(w)
        /\ req[w].invoked
        /\ req[w].failed = "build"
        /\ req[w].result.answer = ErrorAnswer

\* C5: a transport-level fetch failure of a request that passed the boundary
\* validation ends in a 200 response whose answer is the fixed
\* insufficient-information message.
C5_FetchFailureIsSoft ==
    \A w \in Workers :
        (Done(w) /\ req[w].via = "http" /\ req[w].fetched = "transport_error") =>
            /\ req[w].response.status = 200
            /\ req[w].response.body = "answer"
            /\ req[w].response.answer = InsufficientAnswer

C5_Witness ==
    \E w \in Workers :
        /\ Done(w)
        /\ req[w].via = "http"
        /\ req[w].fetched = "transport_error"
        /\ req[w].response.status = 200

\* A request with a url, a conversation and at least 100 characters of
\* fetched text, handled without the LLM credential.
C6_Case(w) ==
    /\ Done(w)
    /\ req[w].invoked
    /\ ~groq_api_key
    /\ req[w].url # EmptyUrl
    /\ req[w].messages # <<>>
    /\ req[w].documents # <<>>
    /\ req[w].documents[1].len >= MinContentLen

C6_AfterIndex(w) ==
    /\ req[w].result = Answer(ConfigErrorAnswer)
    /\ req[w].uuid # 0
    /\ req[w].index \in {"loaded", "built"}
    /\ req[w].uuid \in DOMAIN dirs
    /\ dirs[req[w].uuid].complete

C6_NoLlmCall(w) ==
    /\ req[w].rewriteCalls = 0
    /\ req[w].answerCalls = 0
    /\ ~req[w].planned

\* C6 as stated: without the credential such a request returns the fixed
\* configuration-error answer, with no LLM call, after the identity has been
\* resolved and the index loaded or built and persisted.
C6_ConfigErrorAfterIndex ==
    \A w \in Workers :
        C6_Case(w) => (C6_AfterIndex(w) /\ C6_NoLlmCall(w))

\* C6 amended: without the credential such a request makes no LLM call and
\* returns either the fixed configuration-error answer, after the identity
\* has been resolved and the index loaded or built and persisted, or, when
\* identity resolution, load or build raised, the caught-error answer.
C6_ConfigErrorOrCaught ==
    \A w \in Workers :
        C6_Case(w) =>
            /\ C6_NoLlmCall(w)
            /\ \/ C6_AfterIndex(w) /\ req[w].failed = "none"
               \/ /\ req[w].result = Answer(ErrorAnswer)
                  /\ req[w].failed \in {"uuid", "load", "build"}
                  /\ req[w].index = "none"

C6_Witness ==
    \E w \in Workers :
        /\ C6_Case(w)
        /\ C6_AfterIndex(w)
        /\ req[w].index = "built"

\* C7: a request that reaches query planning with one message searches with
\* that message's content and makes no query-rewrite call; with two or more
\* messages it makes one query-rewrite call and whatever it searches with is
\* the model's output.
C7_QueryPlanning ==
    \A w \in Workers :
        (Done(w) /\ req[w].planned) =>
            /\ Len(req[w].messages) = 1 =>
                   /\ req[w].rewriteCalls = 0
                   /\ req[w].query = req[w].messages[1].content
            /\ Len(req[w].messages) >= 2 =>
                   /\ req[w].rewriteCalls = 1
                   /\ req[w].searched # NoStore => req[w].query = RewrittenQuery

C7_Witness ==
    \E w \in Workers :
        /\ Done(w)
        /\ req[w].planned
        /\ Len(req[w].messages) = 2
        /\ req[w].rewriteCalls = 1
        /\ req[w].searched # NoStore
        /\ req[w].query = RewrittenQuery

\* C8: an http request with no message, with more than MaxMessages messages
\* or with a url that has neither scheme is answered 422 with a {detail}
\* body, and Rag.response is not invoked for it.
C8_BoundaryValidation ==
    \A w \in Workers :
        (/\ Done(w)
         /\ req[w].via = "http"
         /\ \/ Len(req[w].messages) = 0
            \/ Len(req[w].messages) >= MaxMessages + 1
            \/ ~HasHttpScheme(req[w].url)) =>
            /\ req[w].response.status \in 400..499
            /\ req[w].response.body = "detail"
            /\ ~req[w].invoked

C8_Witness ==
    \E w \in Workers :
        /\ Done(w)
        /\ req[w].via = "http"
        /\ Len(req[w].messages) = MaxMessages + 1
        /\ req[w].response.status = 422
        /\ ~req[w].invoked

\* C9 as stated: whenever no write of the mapping file is in progress, every
\* <<id, url>> ever written to it is still in it, whether or not the file
\* was found corrupt or requests overlapped.
C9_AppendOnly ==
    NoWriteInProgress => everWritten \subseteq LoadMapping(url_file)

\* C9 amended: as long as requests are processed one at a time, whenever no
\* write of the mapping file is in progress every <<id, url>> ever written
\* to it is still in it, and no id was ever written with two urls.
C9_AppendOnlyOneAtATime ==
    (~overlapped /\ NoWriteInProgress) =>
        /\ everWritten \subseteq LoadMapping(url_file)
        /\ \A p, q \in everWritten : p[1] = q[1] => p = q

C9_Witness ==
    /\ ~overlapped
    /\ NoWriteInProgress
    /\ Cardinality(everWritten) = 2
    /\ url_file = [state |-> "ok", dict |-> everWritten]

\* Two requests for one url that both found it unmapped and both wrote.
C10_Raced(w1, w2) ==
    /\ w1 # w2
    /\ req[w1].url = req[w2].url
    /\ req[w1].created /\ req[w2].created
    /\ req[w1].pc \in {"index_check", "build"}
    /\ req[w2].pc \in {"index_check", "build"}

\* C10: two requests in flight for the same unmapped url each generate an id
\* of their own, and the mapping file, when it parses, is the copy of the
\* one that wrote last: the other id is not in it.
C10_LastWriterWins ==
    \A w1, w2 \in Workers :
        (C10_Raced(w1, w2) /\ lastWriter = w2) =>
            /\ req[w1].uuid # req[w2].uuid
            /\ url_file.state = "ok" =>
                   /\ url_file.dict = req[w2].url_dict
                   /\ <<req[w1].uuid, req[w1].url>> \notin url_file.dict

C10_Witness ==
    \E w1, w2 \in Workers :
        /\ C10_Raced(w1, w2)
        /\ lastWriter = w2
        /\ req[w1].uuid # req[w2].uuid
        /\ url_file = [state |-> "ok",
                       dict |-> {<<req[w2].uuid, req[w2].url>>}]

\* C11: a request that reaches retrieval searches the index stored under the
\* id it resolved for its own url, built from that url, whatever index the
\* Rag object of its process held from an earlier request.
C11_RequestIsolation ==
    \A w \in Workers :
        (Done(w) /\ req[w].searched # NoStore) =>
            /\ req[w].searched.id = req[w].uuid
            /\ req[w].searched.source = req[w].url
            /\ req[w].uuid \in DOMAIN dirs
            /\ dirs[req[w].uuid].source = req[w].url

C11_Witness ==
    \E w \in Workers :
        /\ Done(w)
        /\ req[w].searched # NoStore
        /\ req[w].held # NoStore
        /\ req[w].held.source # req[w].url
        /\ req[w].searched.source = req[w].url
        /\ req[w].searched.id = req[w].uuid

====
